---- MODULE Spec2Model ----
(***************************************************************************)
(* Model of fractal_tree.py: create_new_element (the 7-point polygon of    *)
(* one tree element) and create_tree (breadth-first expansion with a FIFO  *)
(* front list).                                                            *)
(*                                                                         *)
(* Coordinates are Python floats.  A float is modelled by the integer n of *)
(* quanta it holds (value = n * 2^-FracBits) with at most Precision        *)
(* significant bits; every arithmetic operation computes the exact result  *)
(* and rounds it to the nearest such number, ties to even, as IEEE-754     *)
(* does (binary64 has Precision 53 and FracBits 1074; the model keeps the  *)
(* semantics at a width TLC's integers can hold).  The exponent range is   *)
(* bounded below (results under half a quantum round to zero, as gradual   *)
(* underflow does) and the inputs stay far from the overflow threshold.    *)
(***************************************************************************)
EXTENDS Integers, Sequences, FiniteSets, TLC

\* significant bits of a float
Precision == 4
\* a float is a multiple of 2^-FracBits
FracBits == 6
\* largest max_depth explored
MaxDepth == 2

RECURSIVE Pow2(_)
Pow2(k) == IF k <= 0 THEN 1 ELSE 2 * Pow2(k - 1)

\* the float 1.0, in quanta
One == Pow2(FracBits)

----------------------------------------------------------------------------
(* Float arithmetic: exact result, then round to nearest, ties to even.    *)

\* magnitudes below it are held exactly, quantum by quantum
MantissaLimit == Pow2(Precision)

\* spacing of the floats in the binade that holds magnitude m
RECURSIVE Ulp(_)
Ulp(m) == IF m < MantissaLimit THEN 1 ELSE 2 * Ulp(m \div 2)

\* nearest float to num/den (num >= 0, den > 0), in quanta
RoundMag(num, den) ==
    LET fl == num \div den
        u  == Ulp(fl)
        lo == (fl \div u) * u
        hi == lo + u
    IN  IF 2 * num < (lo + hi) * den THEN lo
        ELSE IF 2 * num > (lo + hi) * den THEN hi
        ELSE IF (lo \div u) % 2 = 0 THEN lo ELSE hi

FRound(num, den) ==
    IF num < 0 THEN 0 - RoundMag(0 - num, den) ELSE RoundMag(num, den)

FAdd(x, y) == FRound(x + y, 1)
FSub(x, y) == FRound(x - y, 1)
FNeg(x)    == 0 - x
FMul(x, y) == FRound(x * y, One)
\* y # 0: the caller raises ZeroDivisionError first
FDiv(x, y) == IF y < 0 THEN FRound((0 - x) * One, 0 - y) ELSE FRound(x * One, y)

RECURSIVE ISqrtIn(_, _, _)
ISqrtIn(n, lo, hi) ==
    IF lo >= hi THEN lo
    ELSE LET mid == (lo + hi + 1) \div 2
         IN  IF mid * mid <= n THEN ISqrtIn(n, mid, hi) ELSE ISqrtIn(n, lo, mid - 1)

\* floor of the square root of n, 0 <= n < 2^31
ISqrt(n) == ISqrtIn(n, 0, IF n < 46340 THEN n ELSE 46340)

\* x ** 0.5, x >= 0
FSqrt(x) ==
    LET v  == x * One
        fl == ISqrt(v)
        u  == Ulp(fl)
        lo == (fl \div u) * u
        hi == lo + u
    IN  IF 4 * v < (lo + hi) * (lo + hi) THEN lo
        ELSE IF 4 * v > (lo + hi) * (lo + hi) THEN hi
        ELSE IF (lo \div u) % 2 = 0 THEN lo ELSE hi

\* x ** 2
FSquare(x) == FMul(x, x)

\* the literal 0.33
ROOF_HEIGHT_FACTOR == FRound(33 * One, 100)
\* the literal 0.5
Half == FRound(5 * One, 10)

----------------------------------------------------------------------------
(* create_new_element                                                      *)

\* base axis
ba_x(a, b) == FSub(b[1], a[1])
ba_y(a, b) == FSub(b[2], a[2])

\* tangential axis
ta_x(a, b) == FNeg(ba_y(a, b))
ta_y(a, b) == ba_x(a, b)

base_length(a, b) == FSqrt(FAdd(FSquare(ta_x(a, b)), FSquare(ta_y(a, b))))

\* "roof" height
rh(a, b) == FMul(base_length(a, b), ROOF_HEIGHT_FACTOR)

\* the division by base_length raises ZeroDivisionError when it is 0.0
RaisesZeroDivision(a, b) == base_length(a, b) = 0

\* "roof top" point, evaluated left to right
rt_x(a, b) ==
    FAdd(FAdd(FAdd(a[1], ta_x(a, b)), FMul(ba_x(a, b), Half)),
         FDiv(FMul(rh(a, b), ta_x(a, b)), base_length(a, b)))
rt_y(a, b) ==
    FAdd(FAdd(FAdd(a[2], ta_y(a, b)), FMul(ba_y(a, b), Half)),
         FDiv(FMul(rh(a, b), ta_y(a, b)), base_length(a, b)))

\* the wall traced from B's side
points_Reversed(a, b) ==
    << <<FAdd(b[1], ta_x(a, b)), FAdd(b[2], ta_y(a, b))>>,
       b,
       a,
       <<FAdd(a[1], ta_x(a, b)), FAdd(a[2], ta_y(a, b))>>,
       <<FAdd(b[1], ta_x(a, b)), FAdd(b[2], ta_y(a, b))>>,
       <<rt_x(a, b), rt_y(a, b)>>,
       <<FAdd(a[1], ta_x(a, b)), FAdd(a[2], ta_y(a, b))>> >>

points(a, b) ==
    << <<FAdd(a[1], ta_x(a, b)), FAdd(a[2], ta_y(a, b))>>,
       a,
       b,
       <<FAdd(b[1], ta_x(a, b)), FAdd(b[2], ta_y(a, b))>>,
       <<FAdd(a[1], ta_x(a, b)), FAdd(a[2], ta_y(a, b))>>,
       <<rt_x(a, b), rt_y(a, b)>>,
       <<FAdd(b[1], ta_x(a, b)), FAdd(b[2], ta_y(a, b))>> >>

\* TreeElement(polygon, depth)
TreeElement(polygon, depth) == [polygon |-> polygon, depth |-> depth]

create_new_element(a, b, depth) == TreeElement(points(a, b), depth)

----------------------------------------------------------------------------
(* create_tree                                                             *)

\* the depth test off by one
ReachedMaxDepth_OffByOne(depth, max_d) == depth > max_d

\* if depth >= max_depth: continue
ReachedMaxDepth(depth, max_d) == depth >= max_d

\* the second append forgotten
ChildItems_OnlyFirst(element, depth) ==
    << <<element.polygon[5], element.polygon[6], depth + 1>> >>

\* the two appends in the other order
ChildItems_Swapped(element, depth) ==
    << <<element.polygon[6], element.polygon[7], depth + 1>>,
       <<element.polygon[5], element.polygon[6], depth + 1>> >>

\* the children two generations down
ChildItems_DepthPlusTwo(element, depth) ==
    << <<element.polygon[5], element.polygon[6], depth + 2>>,
       <<element.polygon[6], element.polygon[7], depth + 2>> >>

\* the two bases taken from polygon[-3], polygon[-2], polygon[-1]
ChildItems(element, depth) ==
    << <<element.polygon[5], element.polygon[6], depth + 1>>,
       <<element.polygon[6], element.polygon[7], depth + 1>> >>

\* the new bases put at the head of the list (a stack)
Enqueue_AtHead(queue, items) == items \o queue

\* front.append(...) twice
Enqueue(queue, items) == queue \o items

----------------------------------------------------------------------------
(* Inputs                                                                  *)

\* the first float whose neighbours are 2.0 apart
Big == Pow2(Precision) * One

Coords == {0, 1, One, 10 * One, Big, Big + 2 * One}
Points == Coords \X Coords
Depths == (0 - 1)..MaxDepth

VARIABLES a0, b0, max_depth, front, all_elements, pc, err, enqueued

vars == <<a0, b0, max_depth, front, all_elements, pc, err, enqueued>>

\* a call create_tree(a0, b0, max_depth) about to start
Init ==
    /\ a0 \in Points
    /\ b0 \in Points
    /\ max_depth \in Depths
    /\ front = <<>>
    /\ all_elements = <<>>
    /\ pc = "call"
    /\ err = "none"
    /\ enqueued = 0

\* all_elements = []; front = [(a, b, 0)]
Call ==
    /\ pc = "call"
    /\ all_elements' = <<>>
    /\ front' = << <<a0, b0, 0>> >>
    /\ enqueued' = 1
    /\ pc' = "loop"
    /\ UNCHANGED <<a0, b0, max_depth, err>>

\* one iteration whose create_new_element raises: the item is popped, the
\* exception leaves create_tree
IterateRaise ==
    /\ pc = "loop"
    /\ front # <<>>
    /\ RaisesZeroDivision(Head(front)[1], Head(front)[2])
    /\ front' = Tail(front)
    /\ pc' = "raised"
    /\ err' = "ZeroDivisionError"
    /\ UNCHANGED <<a0, b0, max_depth, all_elements, enqueued>>

\* one iteration that ends at the continue
IterateLeaf ==
    /\ pc = "loop"
    /\ front # <<>>
    /\ ~RaisesZeroDivision(Head(front)[1], Head(front)[2])
    /\ ReachedMaxDepth(Head(front)[3], max_depth)
    /\ all_elements' = Append(all_elements,
            create_new_element(Head(front)[1], Head(front)[2], Head(front)[3]))
    /\ front' = Tail(front)
    /\ UNCHANGED <<a0, b0, max_depth, pc, err, enqueued>>

\* one iteration that expands the base
IterateExpand ==
    /\ pc = "loop"
    /\ front # <<>>
    /\ ~RaisesZeroDivision(Head(front)[1], Head(front)[2])
    /\ ~ReachedMaxDepth(Head(front)[3], max_depth)
    /\ LET element == create_new_element(Head(front)[1], Head(front)[2], Head(front)[3])
           items   == ChildItems(element, Head(front)[3])
       IN  /\ all_elements' = Append(all_elements, element)
           /\ front' = Enqueue(Tail(front), items)
           /\ enqueued' = enqueued + Len(Enqueue(Tail(front), items)) - Len(Tail(front))
    /\ UNCHANGED <<a0, b0, max_depth, pc, err>>

\* len(front) == 0: return all_elements
Return ==
    /\ pc = "loop"
    /\ front = <<>>
    /\ pc' = "returned"
    /\ UNCHANGED <<a0, b0, max_depth, front, all_elements, err, enqueued>>

Next == Call \/ IterateRaise \/ IterateLeaf \/ IterateExpand \/ Return

Spec == Init /\ [][Next]_vars

----------------------------------------------------------------------------
(* A single call create_new_element(a0, b0, max_depth): max_depth holds    *)
(* the depth argument and all_elements the returned element.               *)

InitElement ==
    /\ a0 \in Points
    /\ b0 \in Points
    /\ max_depth \in 0..MaxDepth
    /\ front = <<>>
    /\ all_elements = <<>>
    /\ pc = "element"
    /\ err = "none"
    /\ enqueued = 0

ElementReturns ==
    /\ pc = "element"
    /\ ~RaisesZeroDivision(a0, b0)
    /\ all_elements' = <<create_new_element(a0, b0, max_depth)>>
    /\ pc' = "element_returned"
    /\ UNCHANGED <<a0, b0, max_depth, front, err, enqueued>>

ElementRaises ==
    /\ pc = "element"
    /\ RaisesZeroDivision(a0, b0)
    /\ err' = "ZeroDivisionError"
    /\ pc' = "raised"
    /\ UNCHANGED <<a0, b0, max_depth, front, all_elements, enqueued>>

NextElement == ElementReturns \/ ElementRaises

SpecElement == InitElement /\ [][NextElement]_vars

----------------------------------------------------------------------------
(* Properties                                                              *)

Abs(x) == IF x < 0 THEN 0 - x ELSE x
\* largest coordinate magnitude among the points of S
Magnitude(S) ==
    LET m == {Abs(q[1]) : q \in S} \cup {Abs(q[2]) : q \in S}
    IN  CHOOSE x \in m : \A y \in m : y <= x

\* 100 * (A + TA + 0.5*BA + 0.33*TA) in exact arithmetic, per coordinate
ExactRoofTop100(a, b) ==
    << 100 * a[1] - 133 * (b[2] - a[2]) + 50 * (b[1] - a[1]),
       100 * a[2] + 133 * (b[1] - a[1]) + 50 * (b[2] - a[2]) >>

Depth(i) == all_elements[i].depth
Polygon(i) == all_elements[i].polygon
DepthsOfFront == {front[i][3] : i \in 1..Len(front)}
DepthsOfOutput == {Depth(i) : i \in 1..Len(all_elements)}

C2_DepthDistribution ==
    (pc = "returned" /\ max_depth >= 0)
        => /\ \A k \in 0..max_depth :
                Cardinality({i \in 1..Len(all_elements) : Depth(i) = k}) = Pow2(k)
           /\ DepthsOfOutput \subseteq 0..max_depth

C2_Witness ==
    /\ pc = "returned"
    /\ max_depth = MaxDepth
    /\ Cardinality({i \in 1..Len(all_elements) : Depth(i) = MaxDepth}) = Pow2(MaxDepth)
    /\ Cardinality({i \in 1..Len(all_elements) : Depth(i) = 1}) = 2

\* C3 (ordering law): after every loop iteration and on return, the first
\* element of the output has depth 0 and the depths never decrease along it.
C3_Ordering ==
    all_elements # <<>>
        => /\ Depth(1) = 0
           /\ \A i \in 1..(Len(all_elements) - 1) : Depth(i) <= Depth(i + 1)

C3_Witness ==
    /\ pc = "loop"
    /\ front # <<>>
    /\ Len(all_elements) >= 4
    /\ Depth(Len(all_elements)) = 2

\* C4 (negative depth rejection): a call with max_depth < 0 is rejected with
\* InvalidArgument before any work: nothing is dequeued, built or returned.
C4_NegativeDepthRejected ==
    max_depth < 0
        => /\ all_elements = <<>>
           /\ pc # "returned"
           /\ pc = "raised" => err = "InvalidArgument"

\* C5 (degenerate rejection): a call with the zero-length root base (a, a) and
\* D >= 0 ends with InvalidGeometry, with no element appended to the output.
C5_DegenerateRejected ==
    (a0 = b0 /\ max_depth >= 0 /\ pc \in {"raised", "returned"})
        => /\ err = "InvalidGeometry"
           /\ all_elements = <<>>

C7_ParentChildLinkage ==
    (pc = "returned" /\ max_depth >= 0)
        => \A j \in 1..Len(all_elements) :
              Depth(j) < max_depth
                => /\ 2 * j + 1 <= Len(all_elements)
                   /\ Depth(2 * j) = Depth(j) + 1
                   /\ Depth(2 * j + 1) = Depth(j) + 1
                   /\ Polygon(2 * j)[2] = Polygon(j)[5]
                   /\ Polygon(2 * j)[3] = Polygon(j)[6]
                   /\ Polygon(2 * j + 1)[2] = Polygon(j)[6]
                   /\ Polygon(2 * j + 1)[3] = Polygon(j)[7]

C7_Witness ==
    /\ pc = "returned"
    /\ max_depth = MaxDepth
    /\ Len(all_elements) >= 7
    /\ Polygon(6)[2] = Polygon(3)[5]
    /\ Polygon(7)[3] = Polygon(3)[7]
    /\ Polygon(3)[5] # Polygon(3)[7]

\* a step of create_tree is still to be taken (Next is enabled)
Running == pc \in {"call", "loop"}

\* C8 (termination): for a # b and D >= 0 the loop reaches an empty front and
\* returns (the call never stops in another way); no queued item is deeper
\* than D and at most 2^(D+1) - 1 items are ever enqueued.
C8_Terminates ==
    (a0 # b0 /\ max_depth >= 0)
        => /\ (pc = "returned" /\ front = <<>>) \/ Running
           /\ enqueued <= Pow2(max_depth + 1) - 1
           /\ \A d \in DepthsOfFront : d <= max_depth

\* C9 (non-degeneracy preserved): if the root base has a # b, every work item
\* placed in the front has a' # b'.
C9_NonDegenerateBases ==
    a0 # b0 => \A i \in 1..Len(front) : front[i][1] # front[i][2]

\* C10 (front invariant): for D >= 0 the depths in the front never decrease
\* from head to tail, the tail is at most 1 deeper than the head, every queued
\* depth is in 0..D and is >= the depth of every element already output.
C10_FrontInvariant ==
    max_depth >= 0
        => /\ \A i \in 1..(Len(front) - 1) : front[i][3] <= front[i + 1][3]
           /\ front # <<>> => front[Len(front)][3] - front[1][3] <= 1
           /\ DepthsOfFront \subseteq 0..max_depth
           /\ \A d \in DepthsOfFront : \A e \in DepthsOfOutput : d >= e

C10_Witness ==
    /\ pc = "loop"
    /\ Len(front) >= 3
    /\ front[Len(front)][3] = front[1][3] + 1
    /\ all_elements # <<>>
    /\ Depth(Len(all_elements)) = front[1][3]

====
